---- MODULE Spec2Model ----
(***************************************************************************)
(* CAN intrusion detection core of industrialNetwork/PIC32MZ/original.c:   *)
(* the range firewall (id_in_ranges), the baseline store (learn_baseline), *)
(* the classifier (detect_anomaly), the dispatcher with its traffic window *)
(* (CAN_MessageReceived) and the alert sink (raise_intrusion_alert,        *)
(* log_alert).                                                             *)
(*                                                                         *)
(* sensors.h, which declares CANMessage, BaselinePattern, MessageWindow,   *)
(* IdRange, WINDOW_SIZE, the RANGE_* bounds and the ALERT_* kinds, is not  *)
(* among the sources.  What it declares is taken from spec.md and from the *)
(* uses in original.c; every such definition says so.                      *)
(***************************************************************************)
EXTENDS Integers, Sequences, FiniteSets, TLC

(***************************************************************************)
(* Declarations of sensors.h                                               *)
(***************************************************************************)

\* Ring capacity: spec.md section 8, scenario 4 ("ring capacity 10").
WINDOW_SIZE == 10

\* Alert kinds (spec.md 4.5: AnomalyDetected, DosDetected); two distinct codes.
ALERT_ANOMALY_DETECTED == 1
ALERT_DOS_DETECTED == 2

\* Width in bits of MessageWindow.count.  The field is a fixed-width C
\* integer that original.c:348 increments without a guard; the model takes
\* the narrowest unsigned type, so that count++ is (count + 1) % 2^8.
COUNT_BITS == 8

\* Identifier ranges, one per sensor domain (original.c:120-127 gives their
\* order).  spec.md fixes 0x300 (768), 0x321 and 0x322 as temperature-domain
\* identifiers and 0x050 (80) as an identifier of no range; original.c:322
\* names 0x300-0x399 as the temperature range.  The other five domains are
\* laid out the same way, 0xN00-0xN99.
RANGE_TEMP_START == 768
RANGE_TEMP_END == 921
RANGE_AIR_QUALITY_START == 1024
RANGE_AIR_QUALITY_END == 1177
RANGE_GAS_START == 1280
RANGE_GAS_END == 1433
RANGE_OCCUPANCY_START == 1536
RANGE_OCCUPANCY_END == 1689
RANGE_BARRIER_STATE_START == 1792
RANGE_BARRIER_STATE_END == 1945
RANGE_BARRIER_COMMAND_START == 256
RANGE_BARRIER_COMMAND_END == 409

(***************************************************************************)
(* Globals of original.c                                                   *)
(***************************************************************************)

idRanges ==
    << [start |-> RANGE_TEMP_START, end |-> RANGE_TEMP_END],
       [start |-> RANGE_AIR_QUALITY_START, end |-> RANGE_AIR_QUALITY_END],
       [start |-> RANGE_GAS_START, end |-> RANGE_GAS_END],
       [start |-> RANGE_OCCUPANCY_START, end |-> RANGE_OCCUPANCY_END],
       [start |-> RANGE_BARRIER_STATE_START, end |-> RANGE_BARRIER_STATE_END],
       [start |-> RANGE_BARRIER_COMMAND_START, end |-> RANGE_BARRIER_COMMAND_END] >>

idRangesCount == Len(idRanges)

\* BaselinePattern baselines[100]
BASELINE_CAPACITY == 100

\* The temperature sub-range and plausibility bound that detect_anomaly
\* writes as literals: 0x300, 0x399, 120.
TEMP_ID_LOW == 768
TEMP_ID_HIGH == 921
TEMP_MAX == 120

\* uint8_t baseline_count
UINT8_MOD == 256

\* uint32_t id_counts[256]; id_hash = can_id & 0xFF
HASH_BUCKETS == 256

(***************************************************************************)
(* Frames                                                                  *)
(***************************************************************************)

\* CANMessage: identifier, data length code, 8 payload bytes, timestamp.
CANMessage(id, dlc, data, ts) ==
    [can_id |-> id, dlc |-> dlc, data |-> data, timestamp |-> ts]

\* An 8-byte payload whose first byte is b0 (data[0] is data[1] here:
\* TLA+ sequences count from 1).
Payload(b0) == <<b0, 0, 0, 0, 0, 0, 0, 0>>

\* A zero-initialised CANMessage (static MessageWindow window = {0}).
ZeroMessage == CANMessage(0, 0, Payload(0), 0)

VARIABLES
    baselines,       \* the first baseline_count entries of baselines[100]
    baseline_count,  \* uint8_t baseline_count
    window,          \* static MessageWindow window of CAN_MessageReceived
    uartTxBuffer,    \* the message last formatted into uartTxBuffer
    dmaLog,          \* messages handed to DMAC_ChannelTransfer by the last call
    alerts,          \* raise_intrusion_alert calls made by the last call
    anomaly_count,   \* the anomaly counter that ids_get_anomaly_count reports
    deviceResetRequested,    \* bool deviceResetRequested
    listenMode,              \* static volatile bool listenMode
    sendTemperatureRequest,  \* static volatile bool sendTemperatureRequest
    isTmr1Expired,           \* static volatile bool isTmr1Expired
    isTemperatureRead,       \* static volatile bool isTemperatureRead
    tempSampleRate,          \* static TEMP_SAMPLING_RATE tempSampleRate
    TxBufferLen,             \* uint8_t TxBufferLen
    TxBuffer,                \* uint8_t TxBuffer[8]
    pc,              \* the line of main's loop that runs next
    rx_status,       \* bool rx_status
    rxMsg,           \* CANMessage rxMsg of the listen block
    lastOp,          \* the last step: "init", "recv", "learn", "sw1", "sw2", "sw3",
                     \* "reset", or the name of a step of main's loop
    lastMsg,         \* its frame
    lastVerdict,     \* "anomaly" or "admit" for a dispatched frame, else "none"
    nCalls,          \* calls made so far
    nAdmitted,       \* frames admitted so far, unbounded
    nDos,            \* ALERT_DOS_DETECTED alerts raised so far
    nRaised,         \* raise_intrusion_alert calls made so far
    payloadReads,    \* indices of msg->data that the last call read
    formatted,       \* the text main's loop formatted last
    nPress,          \* switch handler runs so far
    recent,          \* the last min(nAdmitted, WINDOW_SIZE) admitted frames
    rr               \* the identifiers of a round-robin feed, when there is one

\* The main loop's flags and transmit buffer.
appVars == <<deviceResetRequested, listenMode, sendTemperatureRequest,
             isTmr1Expired, isTemperatureRead, tempSampleRate,
             TxBufferLen, TxBuffer>>

\* The position and locals of main's loop, and what is recorded about it.
loopVars == <<pc, rx_status, rxMsg, formatted, nPress>>

vars == <<baselines, baseline_count, window, uartTxBuffer, dmaLog, alerts,
          anomaly_count, deviceResetRequested, listenMode,
          sendTemperatureRequest, isTmr1Expired, isTemperatureRead,
          tempSampleRate, TxBufferLen, TxBuffer, pc, rx_status, rxMsg,
          lastOp, lastMsg, lastVerdict, nCalls, nAdmitted, nDos, nRaised,
          payloadReads, formatted, nPress, recent, rr>>


(***************************************************************************)
(* Range firewall                                                          *)
(***************************************************************************)

\* bool id_in_ranges(uint32_t ident)
id_in_ranges(ident) ==
    \E i \in 1..idRangesCount :
        ident >= idRanges[i].start /\ ident <= idRanges[i].end

(***************************************************************************)
(* Baseline store                                                          *)
(***************************************************************************)

\* Mutant of FindBaseline: the search leaves out the entry it starts at.
RECURSIVE FindBaseline_SkipFirst(_, _, _, _)
FindBaseline_SkipFirst(bl, n, id, i) ==
    IF i + 1 > n THEN 0
    ELSE IF bl[i + 1].can_id = id THEN i + 1
    ELSE FindBaseline_SkipFirst(bl, n, id, i + 1)

\* The loop both learn_baseline and detect_anomaly run over the table: the
\* index (from 1) of the first entry at or after i whose can_id is id, or 0
\* when the loop ends without a match.
RECURSIVE FindBaseline(_, _, _, _)
FindBaseline(bl, n, id, i) ==
    IF i > n THEN 0
    ELSE IF bl[i].can_id = id THEN i
    ELSE FindBaseline(bl, n, id, i + 1)

\* A new BaselinePattern: can_id, dlc and the 8 payload bytes of msg.
NewBaseline(msg) ==
    [can_id |-> msg.can_id, dlc |-> msg.dlc, expected_pattern |-> msg.data]

\* Mutant of LearnedTable: the update of a learned identifier also refreshes
\* the stored pattern.
LearnedTable_RefreshPattern(bl, n, msg) ==
    LET i == FindBaseline(bl, n, msg.can_id, 1) IN
    IF i # 0
    THEN [baselines |-> [bl EXCEPT ![i].dlc = msg.dlc,
                                   ![i].expected_pattern = msg.data],
          baseline_count |-> n]
    ELSE IF n < BASELINE_CAPACITY
    THEN [baselines |-> Append(bl, NewBaseline(msg)),
          baseline_count |-> (n + 1) % UINT8_MOD]
    ELSE [baselines |-> bl, baseline_count |-> n]

\* Mutant of LearnedTable: the capacity test admits one entry too many.
LearnedTable_OneTooMany(bl, n, msg) ==
    LET i == FindBaseline(bl, n, msg.can_id, 1) IN
    IF i # 0
    THEN [baselines |-> [bl EXCEPT ![i].dlc = msg.dlc], baseline_count |-> n]
    ELSE IF n <= BASELINE_CAPACITY
    THEN [baselines |-> Append(bl, NewBaseline(msg)),
          baseline_count |-> (n + 1) % UINT8_MOD]
    ELSE [baselines |-> bl, baseline_count |-> n]

\* void learn_baseline(CANMessage *msg): the table and the count it leaves.
LearnedTable(bl, n, msg) ==
    LET i == FindBaseline(bl, n, msg.can_id, 1) IN
    IF i # 0
    THEN [baselines |-> [bl EXCEPT ![i].dlc = msg.dlc], baseline_count |-> n]
    ELSE IF n < BASELINE_CAPACITY
    THEN [baselines |-> Append(bl, NewBaseline(msg)),
          baseline_count |-> (n + 1) % UINT8_MOD]
    ELSE [baselines |-> bl, baseline_count |-> n]

learn_baseline(msg) ==
    LET t == LearnedTable(baselines, baseline_count, msg) IN
    /\ baselines' = t.baselines
    /\ baseline_count' = t.baseline_count
    /\ dmaLog' = <<>>
    /\ alerts' = <<>>
    /\ UNCHANGED <<window, uartTxBuffer, anomaly_count>>

(***************************************************************************)
(* Anomaly classifier                                                      *)
(***************************************************************************)

\* Mutant of DlcCheck: only a frame longer than the baseline is flagged.
DlcCheck_OnlyLonger(msg) ==
    LET i == FindBaseline(baselines, baseline_count, msg.can_id, 1) IN
    i # 0 /\ msg.dlc > baselines[i].dlc

\* Check 2 of detect_anomaly: the first entry for the identifier, if there
\* is one, decides (the loop breaks at it).
DlcCheck(msg) ==
    LET i == FindBaseline(baselines, baseline_count, msg.can_id, 1) IN
    i # 0 /\ msg.dlc # baselines[i].dlc

\* Mutant of PayloadCheck: the bound itself is out of range.
PayloadCheck_Inclusive(msg) ==
    /\ msg.can_id >= TEMP_ID_LOW
    /\ msg.can_id <= TEMP_ID_HIGH
    /\ msg.data[1] >= TEMP_MAX

\* Check 3 of detect_anomaly: temp_value = msg->data[0].
PayloadCheck(msg) ==
    /\ msg.can_id >= TEMP_ID_LOW
    /\ msg.can_id <= TEMP_ID_HIGH
    /\ msg.data[1] > TEMP_MAX

\* Mutant of detect_anomaly: an identifier with a baseline skips the
\* firewall check.
detect_anomaly_LearnedFirst(msg) ==
    IF FindBaseline(baselines, baseline_count, msg.can_id, 1) # 0
    THEN DlcCheck(msg) \/ PayloadCheck(msg)
    ELSE ~id_in_ranges(msg.can_id) \/ PayloadCheck(msg)

\* bool detect_anomaly(CANMessage *msg)
detect_anomaly(msg) ==
    IF ~id_in_ranges(msg.can_id) THEN TRUE
    ELSE IF DlcCheck(msg) THEN TRUE
    ELSE IF PayloadCheck(msg) THEN TRUE
    ELSE FALSE

\* The indices of msg->data that detect_anomaly reads: data[0], when the
\* first two checks pass and the identifier is in 0x300..0x399.
detect_anomaly_reads(msg) ==
    IF /\ id_in_ranges(msg.can_id)
       /\ ~DlcCheck(msg)
       /\ msg.can_id >= TEMP_ID_LOW
       /\ msg.can_id <= TEMP_ID_HIGH
    THEN {0}
    ELSE {}

\* The indices of msg->data that learn_baseline reads: data[0..7], when it
\* adds an entry.
learn_baseline_reads(msg) ==
    IF /\ FindBaseline(baselines, baseline_count, msg.can_id, 1) = 0
       /\ baseline_count < BASELINE_CAPACITY
    THEN 0..7
    ELSE {}

(***************************************************************************)
(* Alert sink                                                              *)
(***************************************************************************)

\* sprintf(uartTxBuffer, "ALERT of type %01X  \r\n", (unsigned)alert_type)
AlertText(alert_type) ==
    [format |-> "ALERT of type %01X  \r\n", args |-> <<alert_type>>]

\* One DMAC_ChannelTransfer(DMAC_CHANNEL_0, uartTxBuffer, ...) call: the
\* message in the buffer, and whether the channel took it (true) or was
\* busy (false).
DmaTransfer(message, accepted) == [message |-> message, accepted |-> accepted]

\* Mutant of log_alert: a transfer the channel refuses is tried once more.
log_alert_Retry(msg, alert_type) ==
    /\ uartTxBuffer' = AlertText(alert_type)
    /\ \E accepted \in BOOLEAN :
           dmaLog' = IF accepted
                     THEN <<DmaTransfer(AlertText(alert_type), TRUE)>>
                     ELSE <<DmaTransfer(AlertText(alert_type), FALSE),
                            DmaTransfer(AlertText(alert_type), TRUE)>>

\* void log_alert(CANMessage* msg, uint8_t alert_type): format, then one
\* DMAC_ChannelTransfer whose result is not looked at.
log_alert(msg, alert_type) ==
    /\ uartTxBuffer' = AlertText(alert_type)
    /\ \E accepted \in BOOLEAN :
           dmaLog' = <<DmaTransfer(AlertText(alert_type), accepted)>>

\* void raise_intrusion_alert(CANMessage *msg, uint8_t alert_type): the
\* printf of lines 390-392 is compiled only with DEBUG and writes to
\* stdout, not to the transport.  No counter is written here.
raise_intrusion_alert(msg, alert_type) ==
    /\ log_alert(msg, alert_type)
    /\ alerts' = <<[alert_type |-> alert_type, can_id |-> msg.can_id]>>
    /\ UNCHANGED anomaly_count

(***************************************************************************)
(* Dispatcher and traffic window                                           *)
(***************************************************************************)

\* id_counts[h] after the first loop over window.messages.
id_counts(messages, h) ==
    Cardinality({i \in 0..(WINDOW_SIZE - 1) :
                    messages[i].can_id % HASH_BUCKETS = h})

\* Mutant of ExceedsThreshold: meeting the threshold is enough.
ExceedsThreshold_AtLeast(c) == c * 10 >= WINDOW_SIZE * 7

\* id_counts[i] > (WINDOW_SIZE * 0.7), in tenths: 10 * 0.7 is 7.0 exactly.
ExceedsThreshold(c) == c * 10 > WINDOW_SIZE * 7

\* The second loop: some bucket exceeds the threshold.
DosPattern(messages) ==
    \E h \in 0..(HASH_BUCKETS - 1) : ExceedsThreshold(id_counts(messages, h))

\* Mutant of WindowFull: one frame late.
WindowFull_Strict(count) == count > WINDOW_SIZE

\* window.count >= WINDOW_SIZE
WindowFull(count) == count >= WINDOW_SIZE

\* Mutant of AdmitToWindow: the cursor is advanced without the modulo.
AdmitToWindow_NoWrap(w, msg) ==
    [messages |-> [w.messages EXCEPT ![w.index] = msg],
     index |-> w.index + 1,
     count |-> (w.count + 1) % (2 ^ COUNT_BITS)]

\* The three assignments that add msg to the window.
AdmitToWindow(w, msg) ==
    [messages |-> [w.messages EXCEPT ![w.index] = msg],
     index |-> (w.index + 1) % WINDOW_SIZE,
     count |-> (w.count + 1) % (2 ^ COUNT_BITS)]

\* Mutant of CAN_MessageReceived: the frame is added to the window before
\* it is classified.
CAN_MessageReceived_AdmitFirst(msg) ==
    LET w == AdmitToWindow(window, msg) IN
    /\ window' = w
    /\ IF detect_anomaly(msg)
       THEN raise_intrusion_alert(msg, ALERT_ANOMALY_DETECTED)
       ELSE IF WindowFull(w.count) /\ DosPattern(w.messages)
       THEN raise_intrusion_alert(msg, ALERT_DOS_DETECTED)
       ELSE /\ dmaLog' = <<>>
            /\ alerts' = <<>>
            /\ UNCHANGED <<uartTxBuffer, anomaly_count>>
    /\ UNCHANGED <<baselines, baseline_count>>

\* Mutant of CAN_MessageReceived: no return after the anomaly alert, the
\* frame goes on into the window and the flood check.
CAN_MessageReceived_NoReturn(msg) ==
    LET w == AdmitToWindow(window, msg)
        first == IF detect_anomaly(msg)
                 THEN <<ALERT_ANOMALY_DETECTED>> ELSE <<>>
        second == IF WindowFull(w.count) /\ DosPattern(w.messages)
                  THEN <<ALERT_DOS_DETECTED>> ELSE <<>>
        kinds == first \o second
    IN
    /\ window' = w
    /\ alerts' = [i \in 1..Len(kinds) |->
                     [alert_type |-> kinds[i], can_id |-> msg.can_id]]
    /\ \E acc \in [1..Len(kinds) -> BOOLEAN] :
           dmaLog' = [i \in 1..Len(kinds) |->
                         DmaTransfer(AlertText(kinds[i]), acc[i])]
    /\ uartTxBuffer' = IF kinds = <<>> THEN uartTxBuffer
                       ELSE AlertText(kinds[Len(kinds)])
    /\ UNCHANGED <<baselines, baseline_count, anomaly_count>>

\* void CAN_MessageReceived(CANMessage *msg)
CAN_MessageReceived(msg) ==
    IF detect_anomaly(msg)
    THEN /\ raise_intrusion_alert(msg, ALERT_ANOMALY_DETECTED)
         /\ UNCHANGED <<window, baselines, baseline_count>>
    ELSE LET w == AdmitToWindow(window, msg) IN
         /\ window' = w
         /\ IF WindowFull(w.count) /\ DosPattern(w.messages)
            THEN raise_intrusion_alert(msg, ALERT_DOS_DETECTED)
            ELSE /\ dmaLog' = <<>>
                 /\ alerts' = <<>>
                 /\ UNCHANGED <<uartTxBuffer, anomaly_count>>
         /\ UNCHANGED <<baselines, baseline_count>>

(***************************************************************************)
(* Switch handlers and the soft reset of the main loop                     *)
(***************************************************************************)

\* A text with no arguments, as sprintf leaves it in uartTxBuffer.
PlainText(text) == [format |-> text, args |-> <<>>]

\* The state of the detector: none of the handlers below names it.
idsVars == <<baselines, baseline_count, window, anomaly_count>>

\* static void SW1_User_Handler(GPIO_PIN pin, uintptr_t context), with the
\* switch pressed.
SW1_User_Handler ==
    /\ listenMode' = ~listenMode
    /\ uartTxBuffer' =
           IF ~listenMode
           THEN PlainText("Listen mode ENABLED: printing incoming CAN messages\r\n")
           ELSE PlainText("Listen mode DISABLED\r\n")
    /\ \E accepted \in BOOLEAN :
           dmaLog' = <<DmaTransfer(uartTxBuffer', accepted)>>
    /\ alerts' = <<>>
    /\ UNCHANGED idsVars
    /\ UNCHANGED <<deviceResetRequested, sendTemperatureRequest,
                   isTmr1Expired, isTemperatureRead, tempSampleRate,
                   TxBufferLen, TxBuffer>>

\* static void SW2_User_Handler(GPIO_PIN pin, uintptr_t context), with the
\* switch pressed.
SW2_User_Handler ==
    /\ sendTemperatureRequest' = TRUE
    /\ dmaLog' = <<>>
    /\ alerts' = <<>>
    /\ UNCHANGED idsVars
    /\ UNCHANGED <<uartTxBuffer, deviceResetRequested, listenMode,
                   isTmr1Expired, isTemperatureRead, tempSampleRate,
                   TxBufferLen, TxBuffer>>

\* static void SW3_User_Handler(GPIO_PIN pin, uintptr_t context), with the
\* switch pressed.
SW3_User_Handler ==
    /\ deviceResetRequested' = TRUE
    /\ uartTxBuffer' = PlainText("SW3 pressed, requesting soft reset\r\n")
    /\ \E accepted \in BOOLEAN :
           dmaLog' = <<DmaTransfer(uartTxBuffer', accepted)>>
    /\ alerts' = <<>>
    /\ UNCHANGED idsVars
    /\ UNCHANGED <<listenMode, sendTemperatureRequest, isTmr1Expired,
                   isTemperatureRead, tempSampleRate, TxBufferLen, TxBuffer>>

\* What the soft reset writes, apart from the detector's state.
SoftResetWrites ==
    /\ deviceResetRequested' = FALSE
    /\ uartTxBuffer' = PlainText("Device soft reset via SW3\r\n")
    /\ \E accepted \in BOOLEAN :
           dmaLog' = <<DmaTransfer(uartTxBuffer', accepted)>>
    /\ alerts' = <<>>
    /\ isTmr1Expired' = FALSE
    /\ isTemperatureRead' = FALSE
    /\ tempSampleRate' = "TEMP_SAMPLING_RATE_500MS"
    /\ listenMode' = FALSE
    /\ sendTemperatureRequest' = FALSE
    /\ TxBufferLen' = 1
    /\ TxBuffer' = <<0, 0, 0, 0, 0, 0, 0, 0>>

\* Mutant of main_SoftReset: the reset also empties the baseline table.
main_SoftReset_ClearsBaselines ==
    /\ deviceResetRequested
    /\ SoftResetWrites
    /\ baselines' = <<>>
    /\ baseline_count' = 0
    /\ UNCHANGED <<window, anomaly_count>>

\* main, the block under if (deviceResetRequested) at the head of the loop.
main_SoftReset ==
    /\ deviceResetRequested
    /\ SoftResetWrites
    /\ UNCHANGED idsVars

(***************************************************************************)
(* main's loop, statement by statement.  pc names the line that runs next; *)
(* the switch handlers are interrupts and may run between any two of       *)
(* these steps.  The temperature and timer branches (513-580) run only     *)
(* after SW2 or the timer and are passed over.                             *)
(***************************************************************************)

\* A step that makes no transfer and raises no alert.
Quiet == dmaLog' = <<>> /\ alerts' = <<>>

\* bool ids_process_message(CANMessage *msg): the frame goes to the
\* dispatcher, and the result is the verdict of detect_anomaly.
ids_process_message(msg) == CAN_MessageReceived(msg)

\* unsigned long ids_get_anomaly_count(void): the counter main prints at
\* line 481.
ids_get_anomaly_count == anomaly_count

\* The text of lines 479-481.
AnomalyText(msg) ==
    [format |-> "IDS ANOMALY DETECTED: ID=0x%03X Total anomalies=%lu\r\n",
     args |-> <<msg.can_id, ids_get_anomaly_count>>]

\* The text of lines 485-493: identifier, length, timestamp, and the
\* first min(dlc, 8) payload bytes.
RxText(msg) ==
    [format |-> "CAN RX ID=0x%03X DLC=%d TS=%u data=%02X ... \r\n",
     args |-> <<msg.can_id, msg.dlc, msg.timestamp>>
              \o SubSeq(msg.data, 1, IF msg.dlc < 8 THEN msg.dlc ELSE 8)]

\* if (deviceResetRequested)
main_433 ==
    /\ pc = "L433"
    /\ pc' = IF deviceResetRequested THEN "L435" ELSE "L461"
    /\ Quiet
    /\ UNCHANGED <<idsVars, uartTxBuffer, appVars, rx_status, rxMsg>>

\* deviceResetRequested = false;
main_435 ==
    /\ pc = "L435"
    /\ deviceResetRequested' = FALSE
    /\ pc' = "L437"
    /\ Quiet
    /\ UNCHANGED <<idsVars, uartTxBuffer, rx_status, rxMsg>>
    /\ UNCHANGED <<listenMode, sendTemperatureRequest, isTmr1Expired,
                   isTemperatureRead, tempSampleRate, TxBufferLen, TxBuffer>>

\* sprintf((char*)uartTxBuffer, "Device soft reset via SW3\r\n");
main_437 ==
    /\ pc = "L437"
    /\ uartTxBuffer' = PlainText("Device soft reset via SW3\r\n")
    /\ pc' = "L439"
    /\ Quiet
    /\ UNCHANGED <<idsVars, appVars, rx_status, rxMsg>>

\* DMAC_ChannelTransfer(DMAC_CHANNEL_0, uartTxBuffer, ...) of the reset
\* block: what is in the buffer now is what is handed over.
main_439 ==
    /\ pc = "L439"
    /\ \E accepted \in BOOLEAN :
           dmaLog' = <<DmaTransfer(uartTxBuffer, accepted)>>
    /\ alerts' = <<>>
    /\ pc' = "L444"
    /\ UNCHANGED <<idsVars, uartTxBuffer, appVars, rx_status, rxMsg>>

\* Lines 444-458: the flags, TxBuffer, CAN and timer of the reset block.
main_444 ==
    /\ pc = "L444"
    /\ isTmr1Expired' = FALSE
    /\ isTemperatureRead' = FALSE
    /\ tempSampleRate' = "TEMP_SAMPLING_RATE_500MS"
    /\ listenMode' = FALSE
    /\ sendTemperatureRequest' = FALSE
    /\ TxBufferLen' = 1
    /\ TxBuffer' = <<0, 0, 0, 0, 0, 0, 0, 0>>
    /\ pc' = "L461"
    /\ Quiet
    /\ UNCHANGED <<idsVars, uartTxBuffer, deviceResetRequested,
                   rx_status, rxMsg>>

\* if (listenMode)
main_461 ==
    /\ pc = "L461"
    /\ pc' = IF listenMode THEN "L463" ELSE "L433"
    /\ Quiet
    /\ UNCHANGED <<idsVars, uartTxBuffer, appVars, rx_status, rxMsg>>

\* Lines 463-474: CAN2_MessageReceive and, when it returned a frame, the
\* copy into rxMsg.  got says whether the FIFO held a frame, f is that
\* frame.
main_463(got, f) ==
    /\ pc = "L463"
    /\ rx_status' = got
    /\ rxMsg' = IF got THEN f ELSE rxMsg
    /\ pc' = IF got THEN "L477" ELSE "L433"
    /\ Quiet
    /\ UNCHANGED <<idsVars, uartTxBuffer, appVars>>

\* if (ids_process_message(&rxMsg))
main_477 ==
    /\ pc = "L477"
    /\ ids_process_message(rxMsg)
    /\ pc' = IF detect_anomaly(rxMsg) THEN "L479" ELSE "L485"
    /\ UNCHANGED <<appVars, rx_status, rxMsg>>

\* Lines 479-481: the anomaly text is formatted; no transfer follows.
main_479 ==
    /\ pc = "L479"
    /\ uartTxBuffer' = AnomalyText(rxMsg)
    /\ pc' = "L433"
    /\ Quiet
    /\ UNCHANGED <<idsVars, appVars, rx_status, rxMsg>>

\* Lines 485-493: the text of an admitted frame is formatted.
main_485 ==
    /\ pc = "L485"
    /\ uartTxBuffer' = RxText(rxMsg)
    /\ pc' = "L497"
    /\ Quiet
    /\ UNCHANGED <<idsVars, appVars, rx_status, rxMsg>>

\* Lines 496-499: DMAC_ChannelTransfer of the listen block.
main_497 ==
    /\ pc = "L497"
    /\ \E accepted \in BOOLEAN :
           dmaLog' = <<DmaTransfer(uartTxBuffer, accepted)>>
    /\ alerts' = <<>>
    /\ pc' = "L433"
    /\ UNCHANGED <<idsVars, uartTxBuffer, appVars, rx_status, rxMsg>>

(***************************************************************************)
(* Calls, with the bookkeeping the properties are stated over              *)
(***************************************************************************)

\* recent after one more admitted frame.
Remember(r, msg) ==
    IF Len(r) < WINDOW_SIZE THEN Append(r, msg) ELSE Append(Tail(r), msg)

\* One frame handed to the dispatcher.
Dispatch(msg) ==
    /\ CAN_MessageReceived(msg)
    /\ lastOp' = "recv"
    /\ lastMsg' = msg
    /\ lastVerdict' = IF detect_anomaly(msg) THEN "anomaly" ELSE "admit"
    /\ nCalls' = nCalls + 1
    /\ nAdmitted' = IF detect_anomaly(msg) THEN nAdmitted ELSE nAdmitted + 1
    /\ nDos' = nDos + Cardinality({i \in 1..Len(alerts') :
                                    alerts'[i].alert_type = ALERT_DOS_DETECTED})
    /\ nRaised' = nRaised + Len(alerts')
    /\ payloadReads' = detect_anomaly_reads(msg)
    /\ recent' = IF detect_anomaly(msg) THEN recent ELSE Remember(recent, msg)
    /\ UNCHANGED rr
    /\ UNCHANGED appVars
    /\ UNCHANGED loopVars

\* One frame handed to learn_baseline.
Learn(msg) ==
    /\ learn_baseline(msg)
    /\ lastOp' = "learn"
    /\ lastMsg' = msg
    /\ lastVerdict' = "none"
    /\ nCalls' = nCalls + 1
    /\ payloadReads' = learn_baseline_reads(msg)
    /\ UNCHANGED <<nAdmitted, nDos, nRaised, recent, rr>>
    /\ UNCHANGED appVars
    /\ UNCHANGED loopVars

(***************************************************************************)
(* Specification: any frames, to the dispatcher or to learn_baseline       *)
(***************************************************************************)

MaxCalls == 3

\* Identifiers: 0x050 (no range), 0x300 and 0x399 (the ends of the
\* temperature range), 0x400 (air quality).
CanIds == {80, 768, 921, 1024}
Dlcs == {1, 2}
\* First payload bytes: the plausibility bound, the value after it, and the
\* 25 and 130 of the spec's scenarios.
FirstBytes == {25, 120, 121, 130}

Frames ==
    {CANMessage(id, d, Payload(b), 0) :
        id \in CanIds, d \in Dlcs, b \in {120, 121}}
    \cup {CANMessage(768, d, Payload(b), 0) : d \in Dlcs, b \in FirstBytes}

\* The state when main enters its loop: zeroed globals, TxBuffer as lines
\* 425-426 leave it.
InitState ==
    /\ baselines = <<>>
    /\ baseline_count = 0
    /\ window = [messages |-> [i \in 0..(WINDOW_SIZE - 1) |-> ZeroMessage],
                 index |-> 0, count |-> 0]
    /\ uartTxBuffer = [format |-> "", args |-> <<>>]
    /\ dmaLog = <<>>
    /\ alerts = <<>>
    /\ anomaly_count = 0
    /\ deviceResetRequested = FALSE
    /\ listenMode = FALSE
    /\ sendTemperatureRequest = FALSE
    /\ isTmr1Expired = FALSE
    /\ isTemperatureRead = FALSE
    /\ tempSampleRate = "TEMP_SAMPLING_RATE_500MS"
    /\ TxBufferLen = 8
    /\ TxBuffer = <<170, 1, 2, 3, 4, 5, 6, 7>>
    /\ pc = "L433"
    /\ rx_status = FALSE
    /\ rxMsg = ZeroMessage
    /\ lastOp = "init"
    /\ lastMsg = ZeroMessage
    /\ lastVerdict = "none"
    /\ nCalls = 0
    /\ nAdmitted = 0
    /\ nDos = 0
    /\ nRaised = 0
    /\ payloadReads = {}
    /\ formatted = [format |-> "", args |-> <<>>]
    /\ nPress = 0
    /\ recent = <<>>

Init == InitState /\ rr = <<>>

\* A frame arrives at the dispatcher.
Receive == nCalls < MaxCalls /\ \E f \in Frames : Dispatch(f)

\* A frame is learned (the learning phase's call).
LearnFrame == nCalls < MaxCalls /\ \E f \in Frames : Learn(f)

Next == Receive \/ LearnFrame

Spec == Init /\ [][Next]_vars


(***************************************************************************)
(* SpecFlood: admissible frames of two temperature identifiers, and one    *)
(* frame of no range, to the dispatcher; the table stays empty             *)
(***************************************************************************)

MaxFloodCalls == 12

\* 0x321 and 0x322 with dlc 1 and payload [25], and 0x050.
FloodFrames ==
    {CANMessage(id, 1, Payload(25), 0) : id \in {801, 802, 80}}

ReceiveFlood == nCalls < MaxFloodCalls /\ \E f \in FloodFrames : Dispatch(f)

NextFlood == ReceiveFlood

SpecFlood == Init /\ [][NextFlood]_vars

(***************************************************************************)
(* SpecRR: a uniform round-robin of three or four distinct admissible      *)
(* identifiers to the dispatcher                                           *)
(***************************************************************************)

MaxRRCalls == 24

\* 0x321, 0x322, 0x323 (temperature), 0x421 (air quality), 0x521 (gas):
\* all in range, 0x321, 0x421 and 0x521 with the same low 8 bits.
RRIds == {801, 802, 803, 1057, 1313}

\* The sequences of n distinct identifiers of RRIds.
RECURSIVE DistinctSeqs(_)
DistinctSeqs(n) ==
    IF n = 0 THEN {<<>>}
    ELSE {q \in {Append(r, id) : r \in DistinctSeqs(n - 1), id \in RRIds} :
             \A i \in 1..(n - 1) : q[i] # q[n]}

InitRR == InitState /\ rr \in DistinctSeqs(3) \cup DistinctSeqs(4)

\* The next frame of the round-robin.
ReceiveRR ==
    /\ nCalls < MaxRRCalls
    /\ Dispatch(CANMessage(rr[(nCalls % Len(rr)) + 1], 1, Payload(25), 0))

NextRR == ReceiveRR

SpecRR == InitRR /\ [][NextRR]_vars

(***************************************************************************)
(* SpecLong: one admissible frame, and one frame of no range, to the       *)
(* dispatcher, for more calls than window.count can count                  *)
(***************************************************************************)

MaxLongCalls == 258

LongFrames == {CANMessage(id, 1, Payload(25), 0) : id \in {801, 80}}

ReceiveLong == nCalls < MaxLongCalls /\ \E f \in LongFrames : Dispatch(f)

NextLong == ReceiveLong

SpecLong == Init /\ [][NextLong]_vars

(***************************************************************************)
(* SpecFill: the learning phase fills the table with distinct identifiers  *)
(* 0x300, 0x301, ... and now and then learns 0x300 again                   *)
(***************************************************************************)

MaxFillCalls == 103

\* Calls allowed beyond those that added an entry.
MaxExtraLearns == 3

\* The next identifier not yet in the table: the 101st distinct one, 0x364,
\* once the table holds 100.
FillLearn ==
    /\ nCalls < MaxFillCalls
    /\ nCalls - baseline_count < MaxExtraLearns
    /\ Learn(CANMessage(RANGE_TEMP_START + baseline_count, 1, Payload(25), 0))

\* 0x300 again, with either dlc and another payload.
Relearn ==
    /\ nCalls < MaxFillCalls
    /\ nCalls - baseline_count < MaxExtraLearns
    /\ \E d \in Dlcs : Learn(CANMessage(RANGE_TEMP_START, d, Payload(120), 0))

NextFill == FillLearn \/ Relearn

SpecFill == Init /\ [][NextFill]_vars

(***************************************************************************)
(* SpecReset: frames to the dispatcher and to learn_baseline, the three    *)
(* switches, and the main loop's soft reset                                *)
(***************************************************************************)

MaxResetCalls == 5

\* 0x300 and 0x050 with dlc 1 or 2 and payload [25].
ResetFrames ==
    {CANMessage(id, d, Payload(25), 0) : id \in {768, 80}, d \in Dlcs}

\* The bookkeeping of a step that handles no frame.
NoFrame(op) ==
    /\ lastOp' = op
    /\ lastMsg' = ZeroMessage
    /\ lastVerdict' = "none"
    /\ nCalls' = nCalls + 1
    /\ payloadReads' = {}
    /\ UNCHANGED <<nAdmitted, nDos, nRaised, recent, rr>>
    /\ UNCHANGED loopVars

ReceiveReset == nCalls < MaxResetCalls /\ \E f \in ResetFrames : Dispatch(f)

LearnReset == nCalls < MaxResetCalls /\ \E f \in ResetFrames : Learn(f)

PressSW1 == nCalls < MaxResetCalls /\ SW1_User_Handler /\ NoFrame("sw1")

PressSW2 == nCalls < MaxResetCalls /\ SW2_User_Handler /\ NoFrame("sw2")

PressSW3 == nCalls < MaxResetCalls /\ SW3_User_Handler /\ NoFrame("sw3")

SoftReset == nCalls < MaxResetCalls /\ main_SoftReset /\ NoFrame("reset")

NextReset ==
    \/ ReceiveReset
    \/ LearnReset
    \/ PressSW1
    \/ PressSW2
    \/ PressSW3
    \/ SoftReset

SpecReset == Init /\ [][NextReset]_vars

(***************************************************************************)
(* SpecLoop: main's loop step by step, with SW1 and SW3 pressed at any     *)
(* point between two steps, and frames arriving in the receive FIFO        *)
(***************************************************************************)

MaxLoopSteps == 14
MaxPresses == 4

\* 0x300 with dlc 1 and payload [25], and 0x050.
LoopFrames ==
    {CANMessage(id, 1, Payload(25), 0) : id \in {768, 80}}

\* The bookkeeping of a step of main that classifies no frame; text is the
\* text main has formatted last.
LoopStep(op, text) ==
    /\ nCalls < MaxLoopSteps
    /\ lastOp' = op
    /\ lastMsg' = lastMsg
    /\ lastVerdict' = "none"
    /\ nCalls' = nCalls + 1
    /\ payloadReads' = {}
    /\ formatted' = text
    /\ UNCHANGED <<nPress, nAdmitted, nDos, nRaised, recent, rr>>

\* The bookkeeping of a switch handler run.
Press(op) ==
    /\ nPress < MaxPresses
    /\ lastOp' = op
    /\ lastMsg' = lastMsg
    /\ lastVerdict' = "none"
    /\ nPress' = nPress + 1
    /\ payloadReads' = {}
    /\ UNCHANGED <<pc, rx_status, rxMsg, formatted>>
    /\ UNCHANGED <<nCalls, nAdmitted, nDos, nRaised, recent, rr>>

Loop433 == main_433 /\ LoopStep("main_433", formatted)

Loop435 == main_435 /\ LoopStep("main_435", formatted)

Loop437 == main_437 /\ LoopStep("main_437", uartTxBuffer')

Loop439 == main_439 /\ LoopStep("main_439", formatted)

Loop444 == main_444 /\ LoopStep("main_444", formatted)

Loop461 == main_461 /\ LoopStep("main_461", formatted)

Loop463 ==
    /\ \/ main_463(FALSE, ZeroMessage)
       \/ \E f \in LoopFrames : main_463(TRUE, f)
    /\ LoopStep("main_463", formatted)

Loop477 ==
    /\ main_477
    /\ nCalls < MaxLoopSteps
    /\ lastOp' = "main_477"
    /\ lastMsg' = rxMsg
    /\ lastVerdict' = IF detect_anomaly(rxMsg) THEN "anomaly" ELSE "admit"
    /\ nCalls' = nCalls + 1
    /\ nAdmitted' = IF detect_anomaly(rxMsg) THEN nAdmitted ELSE nAdmitted + 1
    /\ nDos' = nDos + Cardinality({i \in 1..Len(alerts') :
                                    alerts'[i].alert_type = ALERT_DOS_DETECTED})
    /\ nRaised' = nRaised + Len(alerts')
    /\ payloadReads' = detect_anomaly_reads(rxMsg)
    /\ recent' = IF detect_anomaly(rxMsg) THEN recent
                 ELSE Remember(recent, rxMsg)
    /\ UNCHANGED <<formatted, nPress, rr>>

Loop479 == main_479 /\ LoopStep("main_479", uartTxBuffer')

Loop485 == main_485 /\ LoopStep("main_485", uartTxBuffer')

Loop497 == main_497 /\ LoopStep("main_497", formatted)

InterruptSW1 == SW1_User_Handler /\ Press("sw1")

InterruptSW3 == SW3_User_Handler /\ Press("sw3")

NextLoop ==
    \/ Loop433
    \/ Loop435
    \/ Loop437
    \/ Loop439
    \/ Loop444
    \/ Loop461
    \/ Loop463
    \/ Loop477
    \/ Loop479
    \/ Loop485
    \/ Loop497
    \/ InterruptSW1
    \/ InterruptSW3

SpecLoop == Init /\ [][NextLoop]_vars

(***************************************************************************)
(* Properties of the classifier, the dispatcher's anomaly path and the     *)
(* baseline store, under Spec                                              *)
(***************************************************************************)

\* The identifier lies in none of the configured ranges.
OutsideEveryRange(id) ==
    \A i \in 1..Len(idRanges) : id < idRanges[i].start \/ id > idRanges[i].end

\* The table holds an entry for the identifier.
Learned(id) == \E i \in 1..baseline_count : baselines[i].can_id = id

\* The table holds an entry for the frame's identifier with another dlc.
LearnedWithOtherDlc(f) ==
    \E i \in 1..baseline_count :
        baselines[i].can_id = f.can_id /\ baselines[i].dlc # f.dlc

\* The frame is a temperature-domain frame (0x300..0x399) above 120.
HotTemperature(f) == f.can_id \in 768..921 /\ f.data[1] > 120

AnomalyAlert(f) == [alert_type |-> ALERT_ANOMALY_DETECTED, can_id |-> f.can_id]
DosAlert(f) == [alert_type |-> ALERT_DOS_DETECTED, can_id |-> f.can_id]

\* C1: a frame whose identifier lies outside every configured range is an
\* anomaly for detect_anomaly, whatever its dlc and payload and whatever the
\* baseline table holds (also an entry for that very identifier), and the
\* dispatcher given such a frame raises the anomaly alert.
C1_UnknownIdentifier ==
    /\ \A f \in Frames : OutsideEveryRange(f.can_id) => detect_anomaly(f)
    /\ (lastOp = "recv" /\ OutsideEveryRange(lastMsg.can_id))
           => alerts = <<AnomalyAlert(lastMsg)>>

\* C1 witness: an out-of-range frame was dispatched and alerted although the
\* table holds an entry for its identifier with its dlc.
C1_Witness ==
    /\ lastOp = "recv"
    /\ OutsideEveryRange(lastMsg.can_id)
    /\ Learned(lastMsg.can_id)
    /\ ~LearnedWithOtherDlc(lastMsg)
    /\ alerts = <<AnomalyAlert(lastMsg)>>

\* C2: for an in-range frame the length check fires exactly when the table
\* holds an entry for the identifier whose dlc differs from the frame's (so
\* never for an identifier that was not learned); and once learn_baseline
\* has run on a frame with room in the table, the identifier has an entry
\* and every in-range frame with that identifier and another dlc is an
\* anomaly.
C2_LengthCheck ==
    /\ \A f \in Frames :
           ~OutsideEveryRange(f.can_id)
               => /\ DlcCheck(f) <=> LearnedWithOtherDlc(f)
                  /\ ~Learned(f.can_id) => ~DlcCheck(f)
    /\ (lastOp = "learn" /\ baseline_count < BASELINE_CAPACITY)
           => /\ Learned(lastMsg.can_id)
              /\ \A f \in Frames :
                     (/\ f.can_id = lastMsg.can_id
                      /\ f.dlc # lastMsg.dlc
                      /\ ~OutsideEveryRange(f.can_id)) => detect_anomaly(f)

\* C2 witness: 0x300 was just learned with dlc 1 and payload [25], and the
\* frame with the same identifier, payload and dlc 2 is an anomaly.
C2_Witness ==
    /\ lastOp = "learn"
    /\ lastMsg = CANMessage(768, 1, Payload(25), 0)
    /\ detect_anomaly(CANMessage(768, 2, Payload(25), 0))
    /\ ~detect_anomaly(CANMessage(768, 1, Payload(25), 0))

C4_AnomalyStops ==
    [][(lastOp' = "recv" /\ detect_anomaly(lastMsg'))
          => /\ alerts' = <<AnomalyAlert(lastMsg')>>
             /\ window' = window
             /\ baselines' = baselines
             /\ baseline_count' = baseline_count]_vars

\* C4 witness: an anomalous frame was dispatched when the window and the
\* table both held something.
C4_Witness ==
    /\ lastOp = "recv"
    /\ alerts = <<AnomalyAlert(lastMsg)>>
    /\ nAdmitted > 0
    /\ window.count = nAdmitted
    /\ baseline_count > 0

\* C10: learn_baseline called again with the frame of the call before it
\* changes nothing; called with a learned identifier it changes that
\* entry's dlc to the frame's and nothing else (no can_id, no
\* expected_pattern, no other entry's dlc, not the count).
C10_LearnIdempotent ==
    [][lastOp' = "learn"
          => /\ (lastOp = "learn" /\ lastMsg' = lastMsg)
                    => baselines' = baselines /\ baseline_count' = baseline_count
             /\ Learned(lastMsg'.can_id)
                    => /\ baseline_count' = baseline_count
                       /\ Len(baselines') = Len(baselines)
                       /\ \A i \in 1..baseline_count :
                            /\ baselines'[i].can_id = baselines[i].can_id
                            /\ baselines'[i].expected_pattern
                                   = baselines[i].expected_pattern
                            /\ baselines'[i].dlc =
                                   IF baselines[i].can_id = lastMsg'.can_id
                                   THEN lastMsg'.dlc
                                   ELSE baselines[i].dlc]_vars

\* C10 witness: a learned identifier was learned again with another dlc and
\* another payload; the entry has the new dlc and the old pattern.
C10_Witness ==
    /\ lastOp = "learn"
    /\ baseline_count = 2
    /\ baselines[1].can_id = lastMsg.can_id
    /\ baselines[1].dlc = lastMsg.dlc
    /\ baselines[1].dlc = 2
    /\ baselines[1].expected_pattern # lastMsg.data


(***************************************************************************)
(* Properties of the traffic window, under SpecFlood, SpecRR and SpecLong  *)
(***************************************************************************)

\* The last WINDOW_SIZE admitted frames are k frames of 0x321 and then
\* WINDOW_SIZE - k frames of 0x322.
FirstThenSecond(k) ==
    /\ Len(recent) = WINDOW_SIZE
    /\ \A i \in 1..WINDOW_SIZE :
           recent[i].can_id = IF i <= k THEN 801 ELSE 802

\* All admitted frames remembered carry one identifier.
OneIdentifier == \A i \in 1..Len(recent) : recent[i].can_id = recent[1].can_id

\* The last call raised the DoS alert.
DosRaised ==
    \E i \in 1..Len(alerts) : alerts[i].alert_type = ALERT_DOS_DETECTED

\* Frames of the ring whose identifier has low 8 bits h.
InBucket(h) ==
    Cardinality({i \in 0..(WINDOW_SIZE - 1) : window.messages[i].can_id % 256 = h})

\* Some bucket holds strictly more than 70% of WINDOW_SIZE frames.
BucketDominates == \E h \in 0..255 : 10 * InBucket(h) > 7 * WINDOW_SIZE

\* C5: from the empty window, once WINDOW_SIZE frames have been admitted and
\* all of them carry the same identifier, a DoS alert has been raised; the
\* call that admits the WINDOW_SIZE-th of them raises it.
C5_SameIdFlood ==
    (nAdmitted = WINDOW_SIZE /\ OneIdentifier)
        => /\ nDos >= 1
           /\ lastVerdict = "admit" => alerts = <<DosAlert(lastMsg)>>

\* C5 witness: the WINDOW_SIZE-th frame of one identifier was just admitted
\* and the DoS alert raised, after a frame of no range had been turned away.
C5_Witness ==
    /\ nAdmitted = WINDOW_SIZE
    /\ nCalls > WINDOW_SIZE
    /\ OneIdentifier
    /\ lastVerdict = "admit"
    /\ alerts = <<DosAlert(lastMsg)>>
    /\ nDos = 1

\* C6 as claimed: a uniform round-robin of more than 2 distinct admissible
\* identifiers never raises a DoS alert, whatever the identifiers.
C6_Original == nDos = 0

\* C6, the part the code keeps: a round-robin of identifiers whose low 8
\* bits are pairwise distinct never raises a DoS alert.
C6_DistinctLowBytes ==
    (\A i, j \in 1..Len(rr) : i # j => rr[i] % 256 # rr[j] % 256) => nDos = 0

\* C7 as claimed: after 7 frames of 0x321 and 3 of 0x322 into the empty
\* window of capacity 10, a DoS alert has been raised.
C7_Original == (nAdmitted = WINDOW_SIZE /\ FirstThenSecond(7)) => nDos >= 1

\* C7 amended: after 7 frames of 0x321 and 3 of 0x322 into the empty window
\* no DoS alert has been raised (7 does not exceed 70% of 10); after 8 of
\* 0x321 and 2 of 0x322 the call admitting the tenth frame raises it.
C7_SeventyPercent ==
    /\ (nAdmitted = WINDOW_SIZE /\ FirstThenSecond(7)) => nDos = 0
    /\ (nAdmitted = WINDOW_SIZE /\ FirstThenSecond(8))
           => /\ nDos = 1
              /\ lastVerdict = "admit" => alerts = <<DosAlert(lastMsg)>>

\* C7 witness: the tenth frame of the 7 + 3 scenario was just admitted
\* without an alert.
C7_Witness ==
    /\ nAdmitted = WINDOW_SIZE
    /\ FirstThenSecond(7)
    /\ lastVerdict = "admit"
    /\ alerts = <<>>
    /\ InBucket(33) = 7

\* C8 as claimed: an admitted frame raises the DoS alert exactly when at
\* least WINDOW_SIZE frames have been admitted so far and some bucket of the
\* ring's histogram (low 8 bits of the identifier) strictly exceeds 70% of
\* WINDOW_SIZE.
C8_Original ==
    lastVerdict = "admit"
        => (DosRaised <=> (nAdmitted >= WINDOW_SIZE /\ BucketDominates))

\* C8, the part the code keeps: the same, as long as fewer frames have been
\* admitted than window.count can count.
C8_BeforeWrap ==
    (lastVerdict = "admit" /\ nAdmitted < 2 ^ COUNT_BITS)
        => (DosRaised <=> (nAdmitted >= WINDOW_SIZE /\ BucketDominates))

\* C9 as claimed: once window.count >= WINDOW_SIZE holds it holds after
\* every later call.
C9_Original ==
    [][window.count >= WINDOW_SIZE => window'.count >= WINDOW_SIZE]_vars


(***************************************************************************)
(* Properties of the baseline store at capacity, under SpecFill            *)
(***************************************************************************)

\* C11: baseline_count never exceeds 100; learn_baseline on an identifier
\* that is not in a table of 100 entries leaves the table and the count as
\* they were, the identifier still has no entry, and nothing is signalled
\* (no alert, no transfer, uartTxBuffer untouched); learn_baseline on an
\* identifier that is in the full table still sets its entry's dlc.
C11_CapacityLaw ==
    [][/\ baseline_count' <= BASELINE_CAPACITY
       /\ (/\ lastOp' = "learn"
           /\ baseline_count = BASELINE_CAPACITY
           /\ ~Learned(lastMsg'.can_id))
              => /\ baselines' = baselines
                 /\ baseline_count' = baseline_count
                 /\ \A i \in 1..baseline_count' :
                        baselines'[i].can_id # lastMsg'.can_id
                 /\ alerts' = <<>>
                 /\ dmaLog' = <<>>
                 /\ uartTxBuffer' = uartTxBuffer
       /\ (/\ lastOp' = "learn"
           /\ baseline_count = BASELINE_CAPACITY
           /\ Learned(lastMsg'.can_id))
              => \A i \in 1..baseline_count :
                     baselines[i].can_id = lastMsg'.can_id
                         => baselines'[i].dlc = lastMsg'.dlc]_vars

\* C11 witness: the table holds 100 entries, the first with the dlc 2 of a
\* later learn_baseline, and the 101st identifier 0x364 was just handed to
\* learn_baseline and has no entry.
C11_Witness ==
    /\ lastOp = "learn"
    /\ lastMsg.can_id = RANGE_TEMP_START + BASELINE_CAPACITY
    /\ baseline_count = BASELINE_CAPACITY
    /\ Len(baselines) = BASELINE_CAPACITY
    /\ ~Learned(lastMsg.can_id)
    /\ baselines[1].dlc = 2

(***************************************************************************)
(* The anomaly counter                                                     *)
(***************************************************************************)

\* C12 as claimed: the anomaly counter equals the number of alerts raised
\* so far (it is incremented once by every raise_intrusion_alert call, of
\* either kind).
C12_Original == ids_get_anomaly_count = nRaised

(***************************************************************************)
(* Payload bytes read                                                      *)
(***************************************************************************)

\* C13 as claimed: detect_anomaly and learn_baseline read no payload byte
\* at an index greater than or equal to the frame's dlc.
C13_Original == \A i \in payloadReads : i < lastMsg.dlc

(***************************************************************************)
(* Admitted frames and baseline learning                                   *)
(***************************************************************************)

\* C14 as claimed: after CAN_MessageReceived admits a frame, the baseline
\* table (capacity permitting) holds an entry for the frame's identifier
\* whose dlc is the frame's dlc.
C14_Original ==
    (lastOp = "recv" /\ lastVerdict = "admit"
        /\ baseline_count < BASELINE_CAPACITY)
        => \E i \in 1..baseline_count :
               /\ baselines[i].can_id = lastMsg.can_id
               /\ baselines[i].dlc = lastMsg.dlc

(***************************************************************************)
(* The alert transport, under SpecFlood                                    *)
(***************************************************************************)

\* C15: a CAN_MessageReceived call that raises an alert makes exactly one
\* transfer attempt, of that alert's text, whether the channel takes the
\* transfer or not; the baseline table is left as it was, and the window
\* is what the frame and the verdict alone make of it (untouched for an
\* anomalous frame, the frame admitted for a flood alert), the same for
\* an accepted and for a rejected transfer.
C15_BestEffortAlert ==
    [][(lastOp' = "recv" /\ alerts' # <<>>)
          => /\ Len(dmaLog') = 1
             /\ dmaLog'[1].message = AlertText(alerts'[1].alert_type)
             /\ dmaLog'[1].accepted \in BOOLEAN
             /\ baselines' = baselines
             /\ baseline_count' = baseline_count
             /\ window' = IF lastVerdict' = "anomaly"
                          THEN window
                          ELSE AdmitToWindow(window, lastMsg')]_vars

\* C15 witness: a flood alert whose transfer the channel refused, after an
\* earlier call; the call returned with the frame in the window.
C15_Witness ==
    /\ lastOp = "recv"
    /\ alerts = <<DosAlert(lastMsg)>>
    /\ Len(dmaLog) = 1
    /\ dmaLog[1].accepted = FALSE
    /\ window.messages[(window.index + WINDOW_SIZE - 1) % WINDOW_SIZE] = lastMsg

\* C16 as claimed: every alert text handed to the transport carries the
\* alert kind and the identifier of the frame that triggered it.
C16_Original ==
    (lastOp = "recv" /\ alerts # <<>>)
        => \A i \in 1..Len(dmaLog) :
               /\ \E k \in 1..Len(dmaLog[i].message.args) :
                      dmaLog[i].message.args[k] = alerts[1].alert_type
               /\ \E k \in 1..Len(dmaLog[i].message.args) :
                      dmaLog[i].message.args[k] = lastMsg.can_id

(***************************************************************************)
(* The ring of admitted frames, under SpecFlood                            *)
(***************************************************************************)

\* The ring position of the k-th of the frames in recent (oldest first).
RingSlot(k) == (nAdmitted - Len(recent) + k - 1) % WINDOW_SIZE

\* C17: with n frames admitted so far, the ring holds exactly the last
\* min(n, WINDOW_SIZE) admitted frames, oldest at the cursor once full; the
\* cursor is in 0..WINDOW_SIZE-1 and equals n mod WINDOW_SIZE; slots not
\* yet written are still zero; no slot holds a frame that detect_anomaly
\* rejected.
C17_RingHoldsLastAdmitted ==
    /\ window.index \in 0..(WINDOW_SIZE - 1)
    /\ window.index = nAdmitted % WINDOW_SIZE
    /\ Len(recent) = IF nAdmitted < WINDOW_SIZE THEN nAdmitted ELSE WINDOW_SIZE
    /\ \A k \in 1..Len(recent) : window.messages[RingSlot(k)] = recent[k]
    /\ \A p \in 0..(WINDOW_SIZE - 1) :
           \/ \E k \in 1..Len(recent) : p = RingSlot(k)
           \/ window.messages[p] = ZeroMessage
    /\ \A p \in 0..(WINDOW_SIZE - 1) :
           OutsideEveryRange(window.messages[p].can_id)
               => window.messages[p] = ZeroMessage

\* C17 witness: the eleventh admitted frame (0x322) has overwritten the
\* oldest (0x321, slot 0), an anomalous 0x050 frame came in between, and
\* the cursor is back at 1.
C17_Witness ==
    /\ nAdmitted = WINDOW_SIZE + 1
    /\ nCalls > nAdmitted
    /\ window.index = 1
    /\ window.messages[0].can_id = 802
    /\ window.messages[1].can_id = 801
    /\ recent[WINDOW_SIZE].can_id = 802

(***************************************************************************)
(* The baseline store as a keyed table                                     *)
(***************************************************************************)

\* C18: no two of the first baseline_count entries of baselines carry the
\* same can_id.
C18_UniqueKeys ==
    /\ Len(baselines) = baseline_count
    /\ \A i \in 1..baseline_count : \A j \in 1..baseline_count :
           baselines[i].can_id = baselines[j].can_id => i = j

\* C18 witness: three learn_baseline calls, the last on an identifier that
\* already had an entry, left two entries.
C18_Witness ==
    /\ lastOp = "learn"
    /\ nCalls = 3
    /\ baseline_count = 2
    /\ baselines[1].can_id = lastMsg.can_id
    /\ baselines[2].can_id # lastMsg.can_id

(***************************************************************************)
(* One frame, at most one alert, under SpecFlood                           *)
(***************************************************************************)

\* C19: a CAN_MessageReceived call raises at most one alert, with one
\* transfer: an anomalous frame exactly one ALERT_ANOMALY_DETECTED for
\* that frame and no ALERT_DOS_DETECTED, an admitted frame either none or
\* exactly one ALERT_DOS_DETECTED for that frame.
C19_AtMostOneAlert ==
    lastOp = "recv"
        => /\ Len(alerts) <= 1
           /\ Len(dmaLog) = Len(alerts)
           /\ lastVerdict = "anomaly" => alerts = <<AnomalyAlert(lastMsg)>>
           /\ lastVerdict = "admit"
                  => alerts \in {<<>>, <<DosAlert(lastMsg)>>}
           /\ lastVerdict \in {"anomaly", "admit"}

\* C19 witness: an anomalous frame arrived while the window was full and
\* dominated by one bucket, after a flood alert; it raised the anomaly
\* alert alone.
C19_Witness ==
    /\ lastOp = "recv"
    /\ lastVerdict = "anomaly"
    /\ alerts = <<AnomalyAlert(lastMsg)>>
    /\ nDos >= 1
    /\ WindowFull(window.count)
    /\ DosPattern(window.messages)

(***************************************************************************)
(* Lifetime of baseline entries, under SpecReset                           *)
(***************************************************************************)

C21_Original ==
    /\ (lastOp = "main_463" /\ rx_status) => listenMode
    /\ lastOp = "main_477" => listenMode
    /\ alerts # <<>> => listenMode

\* C21, the part the code keeps: the loop reaches the receive call only
\* from the test of line 461 having read listenMode true, and classifies
\* only a frame that call returned; a test that reads false goes back to
\* the head of the loop.
C21_GatedAtTest ==
    [][/\ (pc' = "L463" /\ pc # "L463")
              => (lastOp' = "main_461" /\ listenMode)
       /\ (pc' = "L477" /\ pc # "L477")
              => (lastOp' = "main_463" /\ pc = "L463" /\ rx_status')
       /\ lastOp' = "main_477" => pc = "L477"
       /\ (lastOp' = "main_461" /\ ~listenMode) => pc' = "L433"
       /\ alerts' # <<>> => lastOp' = "main_477"]_vars

\* C22 as claimed: every message main's loop hands to the DMA channel
\* (lines 439 and 497) is the text main formatted for it: no handler has
\* written uartTxBuffer between the sprintf and the transfer.
C22_Original ==
    lastOp \in {"main_439", "main_497"}
        => /\ Len(dmaLog) = 1
           /\ dmaLog[1].message = formatted

====
